---- MODULE Spec2Model ----
(***************************************************************************)
(* Store address resolver of src/server/resolve.rs: the Runner (the cache  *)
(* store_addrs, the freshness test, the validation in get_address), the    *)
(* task/callback protocol of Runnable::run, and the PdStoreAddrResolver    *)
(* front-end with its worker queue.                                        *)
(*                                                                         *)
(* Time is counted in milliseconds; Duration::as_secs truncates to whole   *)
(* seconds.  The worker thread runs one task at a time.  Runnable::run is  *)
(* one step when the cache answers, and two when it does not: the worker   *)
(* blocks in pd_client.get_store (pc = "get_store"), and the rest of run,  *)
(* the callback included, follows when the call returns.                   *)
(***************************************************************************)
EXTENDS Integers, Sequences, FiniteSets, TLC

\* ---------------------------------------------------------------- bounds
NumStores == 1
NumCallers == 2
MaxTime == 60000
MaxCounter == 1

\* ------------------------------------------------------------- constants
STORE_ADDRESS_REFRESH_SECONDS == 60

Stores == 1..NumStores
Callers == 1..NumCallers
\* The amounts by which the clock is seen to advance between two steps.
TimeSteps == {59500, 60000}

StoreStates == {"Up", "Offline", "Tombstone"}
\* Address strings the coordinator may hold for a store.
Addresses == {"", "not-an-address", "127.0.0.1:1", "127.0.0.1:2"}

VARIABLES
    now,            \* Instant::now(), in ms
    pd,             \* the coordinator's lifecycle state of every store
    store_addrs,    \* Runner.store_addrs: store id -> StoreAddr (partial)
    counter,        \* RESOLVE_STORE_COUNTER{"tombstone"}
    queue,          \* tasks scheduled on the worker and not yet taken
    stopped,        \* the worker has been told to stop
    pc,             \* the worker thread: "idle", "get_store" or "exited"
    task,           \* the task the worker is running: <<>> or <<Task>>
    t0,             \* the clock read at the freshness test of that task
    ret,            \* per caller: what its latest resolve() call returned
    cb_calls,       \* per caller: invocations of its latest call's callback
    done,           \* the run the step just taken completed: <<>> or <<Run>>
    tomb_failures   \* callbacks that were handed the tombstone failure

vars == <<now, pd, store_addrs, counter, queue, stopped, pc, task, t0,
          ret, cb_calls, done, tomb_failures>>

\* ------------------------------------------------------------ data types
NoSock == [ip |-> "", port |-> 0]
SocketAddr(ip, port) == [ip |-> ip, port |-> port]

\* Result<SocketAddr>; ids holds the store id an error message names, if any.
Ok(sock) == [ok |-> TRUE, sock |-> sock, err |-> "", ids |-> {}]
Err(msg, ids) == [ok |-> FALSE, sock |-> NoSock, err |-> msg, ids |-> ids]

\* Result<String>
OkAddr(a) == [ok |-> TRUE, addr |-> a, err |-> "", ids |-> {}]
ErrAddr(msg, ids) == [ok |-> FALSE, addr |-> "", err |-> msg, ids |-> ids]

\* pd::Result<metapb::Store>; NoReply when get_store was not called.
NoReply == [kind |-> "none", state |-> "Up", address |-> ""]
PdError == [kind |-> "err", state |-> "Up", address |-> ""]
PdStore(state, address) == [kind |-> "store", state |-> state, address |-> address]

Task(store_id, cb) == [store_id |-> store_id, cb |-> cb]

StoreAddr(sock, last_update) == [sock |-> sock, last_update |-> last_update]
EmptyMap == [x \in {} |-> StoreAddr(NoSock, 0)]

\* One completed Runnable::run: the task, the argument its callback was called
\* with, what get_store returned and how often it was called, the cache and
\* the clock as they were when the task was taken.
Run(t, arg, r, calls, old, start) ==
    [cb |-> t.cb, store_id |-> t.store_id, arg |-> arg, reply |-> r,
     pd_calls |-> calls, old |-> old, t0 |-> start]

\* ------------------------------------------------------- pure functions
\* as_secs that rounds to the nearest second.
as_secs_round(d) == (d + 500) \div 1000

\* Duration::as_secs on a duration in ms.
as_secs(d) == d \div 1000

\* util::to_socket_addr: the parsed endpoint of an address string.
to_socket_addr(a) ==
    CASE a = "127.0.0.1:1" -> Ok(SocketAddr("127.0.0.1", 1))
      [] a = "127.0.0.1:2" -> Ok(SocketAddr("127.0.0.1", 2))
      [] OTHER -> Err("invalid socket address", {})

\* HashMap::insert / HashMap::remove
insert(m, k, v) == [x \in DOMAIN m \cup {k} |-> IF x = k THEN v ELSE m[x]]
remove(m, k) == [x \in DOMAIN m \ {k} |-> m[x]]

\* cache_hit with the age in ms compared to the window in seconds.
cache_hit_ms(m, store_id, t) ==
    /\ store_id \in DOMAIN m
    /\ t - m[store_id].last_update < STORE_ADDRESS_REFRESH_SECONDS

\* cache_hit with <= for <: an entry aged exactly 60 s still answers.
cache_hit_le(m, store_id, t) ==
    /\ store_id \in DOMAIN m
    /\ as_secs(t - m[store_id].last_update) <= STORE_ADDRESS_REFRESH_SECONDS

\* Runner::resolve, lines 64-70: the entry is there and still fresh at time t.
cache_hit(m, store_id, t) ==
    /\ store_id \in DOMAIN m
    /\ as_secs(t - m[store_id].last_update) < STORE_ADDRESS_REFRESH_SECONDS

\* hit_cache that renews the entry's last_update on every hit.
hit_cache_touch(m, store_id, t) ==
    [m EXCEPT ![store_id] = StoreAddr(m[store_id].sock, t)]

\* Runner::resolve, lines 64-70: the cache after it answered (get borrows it).
hit_cache(m, store_id, t) == m

\* get_address without the Tombstone test.
get_address_no_tombstone(store_id, r) ==
    IF r.kind = "err" THEN ErrAddr("pd error", {})
    ELSE IF r.address = "" THEN ErrAddr("invalid empty address", {store_id})
    ELSE OkAddr(r.address)

\* get_address without the empty-address test.
get_address_no_empty(store_id, r) ==
    IF r.kind = "err" THEN ErrAddr("pd error", {})
    ELSE IF r.state = "Tombstone" THEN ErrAddr("has been removed", {store_id})
    ELSE OkAddr(r.address)

\* get_address that accepts only the Up state.
get_address_up_only(store_id, r) ==
    IF r.kind = "err" THEN ErrAddr("pd error", {})
    ELSE IF r.state # "Up" THEN ErrAddr("has been removed", {store_id})
    ELSE IF r.address = "" THEN ErrAddr("invalid empty address", {store_id})
    ELSE OkAddr(r.address)

\* get_address with the empty-address test before the Tombstone test.
get_address_empty_first(store_id, r) ==
    IF r.kind = "err" THEN ErrAddr("pd error", {})
    ELSE IF r.address = "" THEN ErrAddr("invalid empty address", {store_id})
    ELSE IF r.state = "Tombstone" THEN ErrAddr("has been removed", {store_id})
    ELSE OkAddr(r.address)

\* Runner::get_address: the Result<String> made from get_store's reply r.
get_address(store_id, r) ==
    IF r.kind = "err" THEN ErrAddr("pd error", {})
    ELSE IF r.state = "Tombstone" THEN ErrAddr("has been removed", {store_id})
    ELSE IF r.address = "" THEN ErrAddr("invalid empty address", {store_id})
    ELSE OkAddr(r.address)

\* tombstone_inc that counts every failure of get_address.
tombstone_inc_any_err(store_id, r) == IF get_address(store_id, r).ok THEN 0 ELSE 1

\* Runner::get_address, line 88: the increment of the tombstone counter.
tombstone_inc(store_id, r) ==
    IF r.kind = "store" /\ r.state = "Tombstone" THEN 1 ELSE 0

\* refresh_result that falls back to the stale entry when the refresh fails.
refresh_result_stale(store_id, r) ==
    LET addr == get_address(store_id, r)
        res == IF ~addr.ok THEN Err(addr.err, addr.ids) ELSE to_socket_addr(addr.addr)
    IN  IF ~res.ok /\ store_id \in DOMAIN store_addrs
        THEN Ok(store_addrs[store_id].sock)
        ELSE res

\* Runner::resolve, lines 72-81: its result after the cache did not answer.
refresh_result(store_id, r) ==
    LET addr == get_address(store_id, r)
    IN  IF ~addr.ok THEN Err(addr.err, addr.ids)
        ELSE to_socket_addr(addr.addr)

\* refresh_cache that evicts the entry of a store reported as tombstoned.
refresh_cache_evict_tombstone(m, store_id, r, t) ==
    LET res == refresh_result(store_id, r)
    IN  IF res.ok THEN insert(m, store_id, StoreAddr(res.sock, t))
        ELSE IF r.kind = "store" /\ r.state = "Tombstone" THEN remove(m, store_id)
        ELSE m

\* refresh_cache that evicts the entry when the refresh fails.
refresh_cache_on_error(m, store_id, r, t) ==
    LET res == refresh_result(store_id, r)
    IN  IF res.ok THEN insert(m, store_id, StoreAddr(res.sock, t))
        ELSE remove(m, store_id)

\* refresh_cache that inserts only when there is no entry (or_insert).
refresh_cache_keep(m, store_id, r, t) ==
    LET res == refresh_result(store_id, r)
    IN  IF res.ok /\ store_id \notin DOMAIN m
        THEN insert(m, store_id, StoreAddr(res.sock, t))
        ELSE m

\* Runner::resolve, lines 72-79: the cache after it did not answer.
refresh_cache(m, store_id, r, t) ==
    LET res == refresh_result(store_id, r)
    IN  IF res.ok THEN insert(m, store_id, StoreAddr(res.sock, t)) ELSE m

\* call_box that is skipped when resolve failed (try! inside run).
call_box_on_ok(calls, cb, res) ==
    IF res.ok THEN [calls EXCEPT ![cb] = @ + 1] ELSE calls

\* Runnable::run, line 106: task.cb is called with the result.
call_box(calls, cb, res) == [calls EXCEPT ![cb] = @ + 1]

\* Worker::schedule: the queue after a task is offered.
schedule(q, t) == IF stopped THEN q ELSE Append(q, t)

\* resolve_ret that ignores what schedule answered.
resolve_ret_always_ok(accepted) == "ok"

\* resolve_ret with the two outcomes exchanged.
resolve_ret_inverted(accepted) == IF accepted THEN "err" ELSE "ok"

\* PdStoreAddrResolver::resolve, lines 135-136: its return value.
resolve_ret(accepted) == IF accepted THEN "ok" ELSE "err"

\* --------------------------------------------------------------- Init
\* PdStoreAddrResolver::new has returned: an empty cache, a started worker.
Init ==
    /\ now = 0
    /\ pd \in [Stores -> StoreStates]
    /\ store_addrs = EmptyMap
    /\ counter = 0
    /\ queue = <<>>
    /\ stopped = FALSE
    /\ pc = "idle"
    /\ task = <<>>
    /\ t0 = 0
    /\ ret = [c \in Callers |-> "none"]
    /\ cb_calls = [c \in Callers |-> 0]
    /\ done = <<>>
    /\ tomb_failures = 0

\* ------------------------------------------------------------ actions
\* resolve that also drops the store id's entry from the cache.
PdStoreAddrResolver_resolve_invalidating(c, store_id) ==
    /\ ret[c] # "ok" \/ cb_calls[c] >= 1
    /\ queue' = schedule(queue, Task(store_id, c))
    /\ ret' = [ret EXCEPT ![c] = resolve_ret(queue' # queue)]
    /\ cb_calls' = [cb_calls EXCEPT ![c] = 0]
    /\ done' = <<>>
    /\ store_addrs' = remove(store_addrs, store_id)
    /\ UNCHANGED <<now, pd, counter, stopped, pc, task, t0, tomb_failures>>

\* A caller with no call outstanding calls resolve(store_id, cb).
PdStoreAddrResolver_resolve(c, store_id) ==
    /\ ret[c] # "ok" \/ cb_calls[c] >= 1
    /\ queue' = schedule(queue, Task(store_id, c))
    /\ ret' = [ret EXCEPT ![c] = resolve_ret(queue' # queue)]
    /\ cb_calls' = [cb_calls EXCEPT ![c] = 0]
    /\ done' = <<>>
    /\ UNCHANGED <<now, pd, store_addrs, counter, stopped, pc, task, t0,
                   tomb_failures>>

\* The end of Runnable::run for task t: the callback is called with res.
Run_End(t, res, r, calls, start) ==
    /\ cb_calls' = call_box(cb_calls, t.cb, res)
    /\ done' = <<Run(t, res, r, calls, store_addrs, start)>>
    /\ tomb_failures' = tomb_failures
                          + (IF ~res.ok /\ res.err = "has been removed" THEN 1 ELSE 0)

\* Runnable::run on the next task when the cache answers.
Run_Hit ==
    /\ pc = "idle"
    /\ queue # <<>>
    /\ LET t == Head(queue)
       IN  /\ cache_hit(store_addrs, t.store_id, now)
           /\ store_addrs' = hit_cache(store_addrs, t.store_id, now)
           /\ Run_End(t, Ok(store_addrs[t.store_id].sock), NoReply, 0, now)
    /\ queue' = Tail(queue)
    /\ UNCHANGED <<now, pd, counter, stopped, pc, task, t0, ret>>

\* Runnable::run on the next task when the cache does not answer: the worker
\* calls pd_client.get_store and waits for it.
Run_Miss ==
    /\ pc = "idle"
    /\ queue # <<>>
    /\ ~cache_hit(store_addrs, Head(queue).store_id, now)
    /\ task' = <<Head(queue)>>
    /\ queue' = Tail(queue)
    /\ t0' = now
    /\ pc' = "get_store"
    /\ done' = <<>>
    /\ UNCHANGED <<now, pd, store_addrs, counter, stopped, ret, cb_calls,
                   tomb_failures>>

\* GetStore that abandons the task once the worker has been told to stop.
GetStore_unless_stopped(r) ==
    /\ ~stopped
    /\ pc = "get_store"
    /\ counter + tombstone_inc(task[1].store_id, r) <= MaxCounter
    /\ counter' = counter + tombstone_inc(task[1].store_id, r)
    /\ store_addrs' = refresh_cache(store_addrs, task[1].store_id, r, now)
    /\ Run_End(task[1], refresh_result(task[1].store_id, r), r, 1, t0)
    /\ pc' = "idle"
    /\ task' = <<>>
    /\ t0' = 0
    /\ UNCHANGED <<now, pd, queue, stopped, ret>>

\* pd_client.get_store returns r, and the rest of Runnable::run follows.
GetStore(r) ==
    /\ pc = "get_store"
    /\ counter + tombstone_inc(task[1].store_id, r) <= MaxCounter
    /\ counter' = counter + tombstone_inc(task[1].store_id, r)
    /\ store_addrs' = refresh_cache(store_addrs, task[1].store_id, r, now)
    /\ Run_End(task[1], refresh_result(task[1].store_id, r), r, 1, t0)
    /\ pc' = "idle"
    /\ task' = <<>>
    /\ t0' = 0
    /\ UNCHANGED <<now, pd, queue, stopped, ret>>

\* What get_store may return for the running task.
Run_GetStore ==
    \/ GetStore(PdError)
    \/ \E a \in Addresses : GetStore(PdStore(pd[task[1].store_id], a))

\* runner.store_addrs.remove(&store_id), done between two tasks.
Remove(store_id) ==
    /\ pc = "idle"
    /\ store_id \in DOMAIN store_addrs
    /\ store_addrs' = remove(store_addrs, store_id)
    /\ done' = <<>>
    /\ UNCHANGED <<now, pd, counter, queue, stopped, pc, task, t0, ret, cb_calls,
                   tomb_failures>>

\* Drop for PdStoreAddrResolver: the worker is told to stop.
Drop ==
    /\ ~stopped
    /\ stopped' = TRUE
    /\ done' = <<>>
    /\ UNCHANGED <<now, pd, store_addrs, counter, queue, pc, task, t0, ret,
                   cb_calls, tomb_failures>>

\* The stopped worker ends between two tasks; what is still queued is dropped.
Worker_Exit ==
    /\ stopped
    /\ pc = "idle"
    /\ pc' = "exited"
    /\ queue' = <<>>
    /\ done' = <<>>
    /\ UNCHANGED <<now, pd, store_addrs, counter, stopped, task, t0, ret,
                   cb_calls, tomb_failures>>

\* The clock advances.
Tick(d) ==
    /\ now + d <= MaxTime
    /\ now' = now + d
    /\ done' = <<>>
    /\ UNCHANGED <<pd, store_addrs, counter, queue, stopped, pc, task, t0, ret,
                   cb_calls, tomb_failures>>

\* The coordinator changes a store's lifecycle state.
PdChange(s, st) ==
    /\ pd[s] # st
    /\ pd' = [pd EXCEPT ![s] = st]
    /\ done' = <<>>
    /\ UNCHANGED <<now, store_addrs, counter, queue, stopped, pc, task, t0, ret,
                   cb_calls, tomb_failures>>

Next ==
    \/ \E c \in Callers, s \in Stores : PdStoreAddrResolver_resolve(c, s)
    \/ Run_Hit
    \/ Run_Miss
    \/ Run_GetStore
    \/ \E s \in Stores : Remove(s)
    \/ Drop
    \/ Worker_Exit
    \/ \E d \in TimeSteps : Tick(d)
    \/ \E s \in Stores, st \in StoreStates : PdChange(s, st)

Spec == Init /\ [][Next]_vars

\* The resolver as PdStoreAddrResolver::new builds it: the Runner has been moved
\* into the worker (line 124), so nothing but the worker can reach store_addrs.
NextProd ==
    \/ \E c \in Callers, s \in Stores : PdStoreAddrResolver_resolve(c, s)
    \/ Run_Hit
    \/ Run_Miss
    \/ Run_GetStore
    \/ Drop
    \/ Worker_Exit
    \/ \E d \in TimeSteps : Tick(d)
    \/ \E s \in Stores, st \in StoreStates : PdChange(s, st)

SpecProd == Init /\ [][NextProd]_vars

\* The worker thread keeps running and the call to get_store returns.
SpecLive == Init /\ [][Next]_vars /\ WF_vars(Run_GetStore)

\* ------------------------------------------------------------ the claims
\* The step just taken completed a run (its callback has been called).
Finished == done # <<>>

\* The cache as the completed run found it had an entry for its store id.
HadEntry == done[1].store_id \in DOMAIN done[1].old

\* That entry's age when the task was processed, in ms.
EntryAge == done[1].t0 - done[1].old[done[1].store_id].last_update

\* The entry was fresh when the task was processed: now - last_update < 60 s.
WasFresh == HadEntry /\ EntryAge < STORE_ADDRESS_REFRESH_SECONDS * 1000

\* get_store returned metadata in lifecycle state Tombstone.
GotTombstone == done[1].reply.kind = "store" /\ done[1].reply.state = "Tombstone"

\* get_store returned metadata that is not tombstoned and has an empty address.
GotEmpty ==
    /\ done[1].reply.kind = "store"
    /\ done[1].reply.state # "Tombstone"
    /\ done[1].reply.address = ""

\* get_store returned metadata that is not tombstoned and whose address parses.
GotValid ==
    /\ done[1].reply.kind = "store"
    /\ done[1].reply.state # "Tombstone"
    /\ done[1].reply.address # ""
    /\ to_socket_addr(done[1].reply.address).ok

\* C1: a task processed while its store id's entry is fresh (age < 60 s)
\* succeeds with exactly the cached endpoint, and get_store is not invoked for
\* it, whatever the coordinator holds for that id.
C1_FreshHit ==
    (Finished /\ WasFresh) =>
        /\ done[1].arg = Ok(done[1].old[done[1].store_id].sock)
        /\ done[1].pd_calls = 0
        /\ done[1].reply = NoReply

\* A fresh entry, half a second short of the window, answered while the
\* coordinator holds the store as tombstoned.
C1_Witness ==
    /\ Finished
    /\ WasFresh
    /\ EntryAge >= 59000
    /\ pd[done[1].store_id] = "Tombstone"
    /\ done[1].arg.ok

\* C2: a task processed while the cache has no entry for its store id, or an
\* entry of age >= 60 s, invokes get_store exactly once, whether the lookup
\* succeeds or fails.
C2_MissCallsOnce ==
    (Finished /\ ~WasFresh) =>
        /\ done[1].pd_calls = 1
        /\ done[1].reply.kind \in {"err", "store"}

\* A stale entry, and a lookup that failed: one call, no retry.
C2_Witness ==
    /\ Finished
    /\ HadEntry
    /\ ~WasFresh
    /\ done[1].reply.kind = "err"
    /\ done[1].pd_calls = 1

\* C3: a refresh that obtains metadata that is not tombstoned and has a
\* non-empty, parseable address overwrites the entry of that store id with the
\* fetched endpoint and the current time, which is not earlier than the
\* previous entry's, and the task's result is the fetched endpoint.
C3_RefreshOverwrites ==
    (Finished /\ ~WasFresh /\ GotValid) =>
        LET id == done[1].store_id
            sock == to_socket_addr(done[1].reply.address).sock
        IN  /\ id \in DOMAIN store_addrs
            /\ store_addrs[id] = StoreAddr(sock, now)
            /\ HadEntry => store_addrs[id].last_update >= done[1].old[id].last_update
            /\ done[1].arg = Ok(sock)
            /\ \A x \in DOMAIN store_addrs \ {id} :
                   x \in DOMAIN done[1].old /\ store_addrs[x] = done[1].old[x]

\* A stale entry replaced by a different endpoint at a later time.
C3_Witness ==
    /\ Finished
    /\ HadEntry
    /\ ~WasFresh
    /\ GotValid
    /\ done[1].arg.ok
    /\ done[1].arg.sock # done[1].old[done[1].store_id].sock
    /\ store_addrs[done[1].store_id].last_update
         > done[1].old[done[1].store_id].last_update

\* C4: a lookup that returns tombstoned metadata creates no entry and changes
\* no entry, and the task's result is the "store has been removed" failure.
C4_TombstoneNotCached ==
    (Finished /\ GotTombstone) =>
        /\ store_addrs = done[1].old
        /\ done[1].arg = Err("has been removed", {done[1].store_id})

\* A tombstoned reply with a parseable address, for a store id that had a
\* stale entry.
C4_Witness ==
    /\ Finished
    /\ GotTombstone
    /\ HadEntry
    /\ to_socket_addr(done[1].reply.address).ok
    /\ ~done[1].arg.ok

\* C5: a lookup that returns metadata that is not tombstoned and has an empty
\* address fails with the "invalid empty address" failure, which is neither
\* the tombstone nor the transport failure, and creates no entry.
C5_EmptyAddress ==
    (Finished /\ GotEmpty) =>
        /\ done[1].arg = Err("invalid empty address", {done[1].store_id})
        /\ done[1].arg # Err("has been removed", {done[1].store_id})
        /\ done[1].arg # Err("pd error", {})
        /\ store_addrs = done[1].old

\* An empty address for a store id that has no entry, before and after.
C5_Witness ==
    /\ Finished
    /\ GotEmpty
    /\ ~HadEntry
    /\ done[1].store_id \notin DOMAIN store_addrs
    /\ ~done[1].arg.ok

\* C6: a task processed within the freshness window of its store id's entry
\* leaves the entry's endpoint and last_update as they were and returns the
\* entry's endpoint, so consecutive such tasks all return the same endpoint.
C6_HitIdempotent ==
    (Finished /\ WasFresh) =>
        /\ store_addrs = done[1].old
        /\ done[1].arg.ok
        /\ done[1].arg.sock = store_addrs[done[1].store_id].sock

\* A hit some time after the entry was written: its last_update is still the
\* old one.
C6_Witness ==
    /\ Finished
    /\ WasFresh
    /\ EntryAge > 0
    /\ store_addrs[done[1].store_id].last_update < now
    /\ done[1].arg.ok

\* The tasks the worker holds: those queued and the one it is running.
Pending == {queue[i] : i \in 1..Len(queue)} \cup {task[i] : i \in 1..Len(task)}

\* The failures Runner::resolve can produce for store id.
Failures(id) ==
    {Err("pd error", {}), Err("has been removed", {id}),
     Err("invalid empty address", {id}), Err("invalid socket address", {})}

\* C7: the callback of every task the worker runs is invoked exactly once, by
\* the worker as part of running the task: never before the run completes,
\* once when it has completed, with the endpoint resolved or the failure
\* produced for the task's store id.
C7_CallbackOnce ==
    /\ \A c \in Callers : cb_calls[c] <= 1
    /\ \A t \in Pending : cb_calls[t.cb] = 0 /\ ret[t.cb] = "ok"
    /\ \A c \in Callers :
           (ret[c] = "ok" /\ cb_calls[c] = 0 /\ pc # "exited")
               => \E t \in Pending : t.cb = c
    /\ Finished =>
           /\ cb_calls[done[1].cb] = 1
           /\ \A t \in Pending : t.cb # done[1].cb
           /\ IF done[1].arg.ok
              THEN /\ done[1].store_id \in DOMAIN store_addrs
                   /\ done[1].arg = Ok(store_addrs[done[1].store_id].sock)
              ELSE done[1].arg \in Failures(done[1].store_id)

\* A run that ended in a failure: its callback has been called once with it.
C7_Witness ==
    /\ Finished
    /\ ~done[1].arg.ok
    /\ cb_calls[done[1].cb] = 1
    /\ ret[done[1].cb] = "ok"

\* C8: the callback of a resolve call that returned a submission error is
\* never invoked, and its task is never held by the worker; a callback is
\* invoked, with a failure or not, only for a call that returned success.
C8_RejectedNeverCalled ==
    /\ \A c \in Callers :
           ret[c] = "err" =>
               /\ cb_calls[c] = 0
               /\ \A t \in Pending : t.cb # c
               /\ Finished => done[1].cb # c
    /\ \A c \in Callers : cb_calls[c] >= 1 => ret[c] = "ok"
    /\ Finished => ret[done[1].cb] = "ok"

\* A call rejected by the stopped worker.
C8_Witness ==
    /\ stopped
    /\ \E c \in Callers : ret[c] = "err" /\ cb_calls[c] = 0

\* C9: when get_store itself fails, the failure is handed to the task's
\* callback and the cache is as it was before the task.
C9_TransportFailure ==
    (Finished /\ done[1].reply.kind = "err") =>
        /\ done[1].arg = Err("pd error", {})
        /\ cb_calls[done[1].cb] = 1
        /\ store_addrs = done[1].old

\* A failed refresh of a stale entry, which is still there.
C9_Witness ==
    /\ Finished
    /\ done[1].reply.kind = "err"
    /\ HadEntry
    /\ ~WasFresh
    /\ done[1].store_id \in DOMAIN store_addrs

\* C10: the tombstone counter equals the number of tasks that failed with the
\* tombstone failure, and a task fails with it exactly when get_store
\* returned tombstoned metadata: every such task adds one, no other outcome
\* adds anything.
C10_TombstoneCounter ==
    /\ counter = tomb_failures
    /\ Finished =>
           (done[1].arg = Err("has been removed", {done[1].store_id})
               <=> GotTombstone)

\* The counter after a tombstone failure.
C10_Witness ==
    /\ Finished
    /\ GotTombstone
    /\ counter = 1
    /\ tomb_failures = 1

\* C11: of the lifecycle states only Tombstone is rejected: when get_store
\* returns metadata with a non-empty address, get_address fails with the
\* tombstone failure if the state is Tombstone, and succeeds if it is Up or
\* Offline, so that the task's result is whatever parsing that address gives.
C11_OnlyTombstoneRejected ==
    (Finished /\ done[1].reply.kind = "store" /\ done[1].reply.address # "") =>
        IF done[1].reply.state = "Tombstone"
        THEN done[1].arg = Err("has been removed", {done[1].store_id})
        ELSE /\ done[1].reply.state \in {"Up", "Offline"}
             /\ done[1].arg = to_socket_addr(done[1].reply.address)

\* An Offline store with a parseable address resolves.
C11_Witness ==
    /\ Finished
    /\ done[1].reply.kind = "store"
    /\ done[1].reply.state = "Offline"
    /\ done[1].reply.address # ""
    /\ done[1].arg.ok

\* C12: once the worker has been told to stop it stays so, and no step adds a
\* task to those the worker holds: every resolve call made from then on
\* returns the submission error and leaves the queue as it was.
C12_NoTaskAfterStop ==
    [][stopped =>
          /\ stopped'
          /\ Pending' \subseteq Pending
          /\ Len(queue') <= Len(queue)
          /\ \A c \in Callers :
                 (ret'[c] # ret[c] \/ cb_calls'[c] < cb_calls[c]) =>
                     /\ ret'[c] = "err"
                     /\ cb_calls'[c] = 0
                     /\ queue' = queue]_vars

\* A task queued before the stop has run after it, and a call made after the
\* stop was rejected.
C12_Witness ==
    /\ stopped
    /\ Finished
    /\ \E c \in Callers : c # done[1].cb /\ ret[c] = "err"

\* C13: the worker runs one task at a time: it holds at most one task out of
\* the queue, and holds one exactly while a get_store call is in flight; a
\* step that changes the cache is the worker's completion of that task, for
\* that task's store id; a resolve call leaves the cache alone.
C13_OneTaskAtATime ==
    /\ [](/\ Len(task) <= 1
          /\ (pc = "get_store") <=> (Len(task) = 1)
          /\ \A t \in Pending : t.cb \in Callers)
    /\ [][store_addrs' # store_addrs =>
              /\ pc = "get_store"
              /\ Len(task) = 1
              /\ pc' = "idle"
              /\ task' = <<>>
              /\ done' # <<>>
              /\ done'[1].cb = task[1].cb
              /\ done'[1].store_id = task[1].store_id
              /\ ret' = ret
              /\ queue' = queue]_vars
    /\ [][(queue' # queue /\ Len(queue') > Len(queue)) \/ ret' # ret =>
              store_addrs' = store_addrs]_vars

\* A get_store call in flight for one caller while another caller's task
\* waits in the queue.
C13_Witness ==
    /\ pc = "get_store"
    /\ Len(task) = 1
    /\ Len(queue) >= 1
    /\ queue[1].cb # task[1].cb

C15_StrictWindow ==
    (Finished /\ HadEntry) =>
        /\ EntryAge = STORE_ADDRESS_REFRESH_SECONDS * 1000 => done[1].pd_calls = 1
        /\ EntryAge < STORE_ADDRESS_REFRESH_SECONDS * 1000 =>
               /\ done[1].pd_calls = 0
               /\ done[1].arg = Ok(done[1].old[done[1].store_id].sock)
        /\ (done[1].pd_calls = 0) <=> (EntryAge < STORE_ADDRESS_REFRESH_SECONDS * 1000)

\* An entry of age exactly 60 s, for which get_store was called.
C15_Witness ==
    /\ Finished
    /\ HadEntry
    /\ EntryAge = STORE_ADDRESS_REFRESH_SECONDS * 1000
    /\ done[1].pd_calls = 1

\* C16 as stated: for a cached store the coordinator holds as tombstoned, a
\* task processed within the window succeeds with the cached endpoint and a
\* task processed after it fails with the tombstone failure.
C16_Original ==
    (Finished /\ HadEntry /\ pd[done[1].store_id] = "Tombstone") =>
        IF WasFresh
        THEN done[1].arg = Ok(done[1].old[done[1].store_id].sock)
        ELSE done[1].arg = Err("has been removed", {done[1].store_id})

\* C16: for a cached store the coordinator holds as tombstoned, a task
\* processed within the window succeeds with the cached endpoint; a task
\* processed after it fails and leaves the entry as it was: with the
\* tombstone failure when get_store returns the metadata, with the transport
\* failure when get_store itself fails.
C16_ValidatedOnRefreshOnly ==
    (Finished /\ HadEntry /\ pd[done[1].store_id] = "Tombstone") =>
        IF WasFresh
        THEN /\ done[1].arg = Ok(done[1].old[done[1].store_id].sock)
             /\ done[1].pd_calls = 0
        ELSE /\ store_addrs = done[1].old
             /\ IF done[1].reply.kind = "store"
                THEN done[1].arg = Err("has been removed", {done[1].store_id})
                ELSE done[1].arg = Err("pd error", {})

\* The entry reached the end of its window and the refresh found the store
\* tombstoned.
C16_Witness ==
    /\ Finished
    /\ HadEntry
    /\ EntryAge = STORE_ADDRESS_REFRESH_SECONDS * 1000
    /\ pd[done[1].store_id] = "Tombstone"
    /\ GotTombstone
    /\ done[1].arg = Err("has been removed", {done[1].store_id})

\* C17: a task the worker has taken off the queue is run to its end and its
\* callback is called, whether or not the worker is told to stop meanwhile.
C17_TakenTaskCompletes ==
    \A c \in Callers :
        (pc = "get_store" /\ Len(task) = 1 /\ task[1].cb = c)
            ~> (Finished /\ done[1].cb = c /\ cb_calls[c] = 1)

\* The worker has been told to stop while a task is waiting for get_store.
C17_Witness ==
    /\ stopped
    /\ pc = "get_store"
    /\ Len(task) = 1
    /\ cb_calls[task[1].cb] = 0

\* C18: a step that takes an entry out of the cache is the explicit remove,
\* made while the worker runs no task; a step that changes an entry's content
\* is the completion of a task for that store id whose get_store call
\* returned metadata that resolved.
C18_NeverShrinks ==
    [][LET changed == {x \in DOMAIN store_addrs \cap DOMAIN store_addrs' :
                          store_addrs'[x] # store_addrs[x]}
       IN  /\ ~(DOMAIN store_addrs \subseteq DOMAIN store_addrs') =>
                 /\ pc = "idle"
                 /\ pc' = "idle"
                 /\ done' = <<>>
                 /\ queue' = queue
                 /\ cb_calls' = cb_calls
                 /\ \E x \in DOMAIN store_addrs :
                        store_addrs' = remove(store_addrs, x)
           /\ changed # {} =>
                 /\ done' # <<>>
                 /\ changed = {done'[1].store_id}
                 /\ done'[1].pd_calls = 1
                 /\ done'[1].reply.kind = "store"
                 /\ done'[1].arg.ok
                 /\ store_addrs'[done'[1].store_id].sock = done'[1].arg.sock
           /\ done' # <<>> =>
                 /\ DOMAIN store_addrs \subseteq DOMAIN store_addrs'
                 /\ ~done'[1].arg.ok => store_addrs' = store_addrs]_vars

\* A task that found the store without an address has left the entry it
\* could not refresh in the cache.
C18_Witness ==
    /\ Finished
    /\ GotEmpty
    /\ HadEntry
    /\ done[1].store_id \in DOMAIN store_addrs
    /\ store_addrs = done[1].old

\* C19: when the entry is stale and the refresh fails, the task's result is
\* that failure and not the stale endpoint, the entry is as it was, and it is
\* still stale, so that the next task for the store id calls get_store again.
C19_NoStaleFallback ==
    (Finished /\ HadEntry /\ ~WasFresh /\ ~GotValid) =>
        LET id == done[1].store_id
        IN  /\ ~done[1].arg.ok
            /\ done[1].arg =
                 (IF done[1].reply.kind = "err" THEN Err("pd error", {})
                  ELSE IF done[1].reply.state = "Tombstone"
                       THEN Err("has been removed", {id})
                  ELSE IF done[1].reply.address = ""
                       THEN Err("invalid empty address", {id})
                  ELSE Err("invalid socket address", {}))
            /\ store_addrs = done[1].old
            /\ ~cache_hit(store_addrs, id, now)

\* A stale entry whose refresh returned an address that does not parse.
C19_Witness ==
    /\ Finished
    /\ HadEntry
    /\ ~WasFresh
    /\ done[1].reply.kind = "store"
    /\ done[1].reply.state = "Up"
    /\ done[1].reply.address = "not-an-address"
    /\ done[1].arg = Err("invalid socket address", {})

\* C20: metadata that is tombstoned and has an empty address gives the
\* tombstone failure, counted by the tombstone counter, and not the "invalid
\* empty address" failure.
C20_TombstoneBeforeEmpty ==
    (Finished /\ GotTombstone /\ done[1].reply.address = "") =>
        /\ done[1].arg = Err("has been removed", {done[1].store_id})
        /\ done[1].arg # Err("invalid empty address", {done[1].store_id})
        /\ counter >= 1
        /\ counter = tomb_failures

\* A tombstoned store without an address, counted once.
C20_Witness ==
    /\ Finished
    /\ GotTombstone
    /\ done[1].reply.address = ""
    /\ ~done[1].arg.ok
    /\ counter = 1

====
